---- MODULE Spec2Model ----
(***************************************************************************)
(* University Dashboard (src/dashboard.py): a Streamlit script that loads  *)
(* one CSV, derives a Season column, offers one selectbox (the term) and   *)
(* recomputes every KPI and chart table on each rerun of the script.       *)
(*                                                                         *)
(* A DataFrame is a record [columns, rows]: columns is the set of column   *)
(* labels, rows the sequence of rows, each row a function from column      *)
(* label to value.  Python strings whose characters the script inspects    *)
(* (term labels: the `in` test and sorted()) are sequences of one-         *)
(* character strings; the other strings are atoms.  Percentages are kept   *)
(* in tenths of a percent (85.0 is 850); a mean is an exact fraction.      *)
(***************************************************************************)
EXTENDS Integers, Sequences, FiniteSets, TLC

VARIABLES df, term_options, selected_term, filtered_df,
          total_applications, total_admissions, total_enrollments,
          avg_retention, avg_satisfaction,
          admissions_data, dept_data, spring_data, fall_data, combined,
          df_dept_long, df_dept_trends, st_write, exception

vars == <<df, term_options, selected_term, filtered_df,
          total_applications, total_admissions, total_enrollments,
          avg_retention, avg_satisfaction,
          admissions_data, dept_data, spring_data, fall_data, combined,
          df_dept_long, df_dept_trends, st_write, exception>>

(* The largest number of data rows of the CSV file. *)
MaxRows == 3

-----------------------------------------------------------------------------
(* Python strings *)

(* Code points of the characters that occur in the term labels. *)
Ord ==
  (" " :> 32) @@ ("/" :> 47) @@ ("0" :> 48) @@ ("1" :> 49) @@ ("2" :> 50) @@
  ("3" :> 51) @@ ("4" :> 52) @@ ("A" :> 65) @@ ("F" :> 70) @@ ("H" :> 72) @@
  ("N" :> 78) @@ ("S" :> 83) @@ ("T" :> 84) @@
  ("a" :> 97) @@ ("b" :> 98) @@ ("d" :> 100) @@ ("e" :> 101) @@
  ("g" :> 103) @@ ("i" :> 105) @@ ("l" :> 108) @@ ("m" :> 109) @@
  ("n" :> 110) @@ ("o" :> 111) @@ ("p" :> 112) @@ ("r" :> 114) @@
  ("s" :> 115) @@ ("t" :> 116) @@ ("u" :> 117) @@ ("x" :> 120) @@
  ("y" :> 121)

(* sub in s *)
Contains(sub, s) ==
  \E i \in 0..(Len(s) - Len(sub)) : SubSeq(s, i + 1, i + Len(sub)) = sub

(* a < b on str: the first differing code point decides, a proper prefix is smaller *)
StrLess(a, b) ==
  \E k \in 1..Len(b) :
    /\ \A j \in 1..(k - 1) : j <= Len(a) /\ a[j] = b[j]
    /\ \/ k = Len(a) + 1
       \/ k <= Len(a) /\ Ord[a[k]] < Ord[b[k]]

(* sorted(...) of a collection of distinct strings *)
RECURSIVE sorted(_)
sorted(S) ==
  IF S = {} THEN << >>
  ELSE LET m == CHOOSE x \in S : \A y \in S \ {x} : StrLess(x, y)
       IN  <<m>> \o sorted(S \ {m})

STR_Spring == <<"S", "p", "r", "i", "n", "g">>
STR_Fall == <<"F", "a", "l", "l">>
STR_All == <<"A", "l", "l">>

(* the two tests in the other order: 'Fall' wins on a label holding both *)
classify_season_FallFirst(x) ==
  IF Contains(STR_Fall, x) THEN "Fall"
  ELSE IF Contains(STR_Spring, x) THEN "Spring" ELSE "Other"

(* lambda x: 'Spring' if 'Spring' in x else ('Fall' if 'Fall' in x else 'Other') *)
classify_season(x) ==
  IF Contains(STR_Spring, x) THEN "Spring"
  ELSE IF Contains(STR_Fall, x) THEN "Fall" ELSE "Other"

-----------------------------------------------------------------------------
(* The CSV file *)

DeptColumns == <<"Arts Enrolled", "Science Enrolled", "Engineering Enrolled",
                 "Business Enrolled">>

CsvColumns == {"Year", "Term", "Applications", "Admitted", "Enrolled",
               "Retention Rate (%)", "Student Satisfaction (%)",
               "Arts Enrolled", "Science Enrolled", "Engineering Enrolled",
               "Business Enrolled"}

CsvRow(year, term, app, adm, enr, ret, sat, arts, sci, eng, bus) ==
  ("Year" :> year) @@ ("Term" :> term) @@ ("Applications" :> app) @@
  ("Admitted" :> adm) @@ ("Enrolled" :> enr) @@
  ("Retention Rate (%)" :> ret) @@ ("Student Satisfaction (%)" :> sat) @@
  ("Arts Enrolled" :> arts) @@ ("Science Enrolled" :> sci) @@
  ("Engineering Enrolled" :> eng) @@ ("Business Enrolled" :> bus)

T_Fall2022 == <<"F", "a", "l", "l", " ", "2", "0", "2", "2">>
T_Spring2023 == <<"S", "p", "r", "i", "n", "g", " ", "2", "0", "2", "3">>
T_Fall2023 == <<"F", "a", "l", "l", " ", "2", "0", "2", "3">>
T_Summer2023 == <<"S", "u", "m", "m", "e", "r", " ", "2", "0", "2", "3">>
T_Hybrid2023 == <<"S", "p", "r", "i", "n", "g", "/", "F", "a", "l", "l", " ",
                  "H", "y", "b", "r", "i", "d", " ", "2", "0", "2", "3">>
T_lower2024 == <<"s", "p", "r", "i", "n", "g", " ", "2", "0", "2", "4">>
T_Nonexistent == <<"N", "o", "n", "e", "x", "i", "s", "t", "e", "n", "t", " ",
                   "T", "e", "r", "m">>

(* The data rows a CSV file is made of.  The Summer row's four department *)
(* counts add up to 3 while its Enrolled is 4.                            *)
CsvRows ==
  { CsvRow(2022, T_Fall2022, 30, 18, 7, 850, 800, 2, 2, 2, 1),
    CsvRow(2023, T_Spring2023, 29, 17, 6, 892, 852, 1, 2, 2, 1),
    CsvRow(2023, T_Fall2023, 31, 19, 8, 870, 810, 2, 2, 3, 1),
    CsvRow(2023, T_Summer2023, 10, 5, 4, 880, 790, 1, 1, 1, 0),
    CsvRow(2023, T_Hybrid2023, 12, 6, 3, 860, 820, 1, 1, 1, 0),
    CsvRow(2024, T_lower2024, 5, 3, 2, 900, 830, 1, 0, 1, 0) }

(* pd.read_csv: the files of at most MaxRows data rows under the given header *)
read_csv(columns) ==
  UNION { { [columns |-> columns,
             rows |-> [i \in 1..n |-> [c \in columns |-> f[i][c]]]] :
              f \in [1..n -> CsvRows] } : n \in 0..MaxRows }

-----------------------------------------------------------------------------
(* pandas *)

NaN == "nan"
(* a name the run never bound *)
Unset == [unbound |-> TRUE]

Empty(d) == Len(d.rows) = 0

RECURSIVE GCD(_, _)
GCD(a, b) == IF b = 0 THEN a ELSE GCD(b, a % b)

(* Series.sum(): 0 on no rows *)
RECURSIVE SumCol(_, _)
SumCol(rows, c) ==
  IF Len(rows) = 0 THEN 0 ELSE rows[1][c] + SumCol(Tail(rows), c)

(* Series.mean(): NaN on no rows, else the exact quotient sum/count *)
MeanCol(rows, c) ==
  IF Len(rows) = 0 THEN NaN
  ELSE LET s == SumCol(rows, c)
           g == GCD(s, Len(rows))
       IN  <<s \div g, Len(rows) \div g>>

(* d[d[c] == v] *)
Where(d, c, v) == [d EXCEPT !.rows = SelectSeq(d.rows, LAMBDA r : r[c] = v)]

(* d[c] = v on every row *)
SetColumn(d, c, v) ==
  [columns |-> d.columns \union {c},
   rows |-> [i \in 1..Len(d.rows) |->
               [k \in d.columns \union {c} |-> IF k = c THEN v ELSE d.rows[i][k]]]]

(* df['Term'].unique() *)
unique(d, c) == { d.rows[i][c] : i \in 1..Len(d.rows) }

(* agg "first": the group's first value of column c *)
agg_first(rows, c) == rows[1][c]

(* agg "sum": the sum of column c over the rows of one group *)
agg_sum(rows, c) == SumCol(rows, c)

(* d.groupby("Term").agg({...}).reset_index(): one row per distinct Term, *)
(* the keys in sorted order, "sum" applied to the sums columns and "mean" *)
(* to the means columns of each group                                     *)
groupby_agg(d, sums, means) ==
  LET keys == sorted(unique(d, "Term"))
      cols == {"Term"} \union sums \union means
      grp(k) == SelectSeq(d.rows, LAMBDA r : r["Term"] = k)
  IN  [columns |-> cols,
       rows |-> [i \in 1..Len(keys) |->
                   [c \in cols |->
                      IF c = "Term" THEN keys[i]
                      ELSE IF c \in sums THEN agg_sum(grp(keys[i]), c)
                      ELSE MeanCol(grp(keys[i]), c)]]]

(* pd.concat([a, b]): the rows of a then of b, over the union of the columns *)
concat(a, b) ==
  LET cols == a.columns \union b.columns
      all == a.rows \o b.rows
  IN  [columns |-> cols,
       rows |-> [i \in 1..Len(all) |->
                   [c \in cols |-> IF c \in DOMAIN all[i] THEN all[i][c] ELSE NaN]]]

(* d.melt(id_vars, value_vars, var_name="Department", value_name="Enrollments"): *)
(* for each value column in turn, one row per row of d                           *)
melt(d, id_vars, value_vars) ==
  LET n == Len(d.rows)
      cols == id_vars \union {"Department", "Enrollments"}
  IN  [columns |-> cols,
       rows |-> [k \in 1..(Len(value_vars) * n) |->
                   LET v == value_vars[((k - 1) \div n) + 1]
                       r == d.rows[((k - 1) % n) + 1]
                   IN  [c \in cols |->
                          IF c = "Department" THEN v
                          ELSE IF c = "Enrollments" THEN r[v]
                          ELSE r[c]]]]

-----------------------------------------------------------------------------
(* The script *)

(* load_data(): the CSV with the Season column derived from Term *)
load_data(csv) ==
  [columns |-> csv.columns \union {"Season"},
   rows |-> [i \in 1..Len(csv.rows) |->
               [c \in csv.columns \union {"Season"} |->
                  IF c = "Season" THEN classify_season(csv.rows[i]["Term"])
                  ELSE csv.rows[i][c]]]]

(* a list of options written out by hand, whatever the data holds *)
TermOptionsFixed(d) ==
  <<STR_All>> \o sorted({ r["Term"] : r \in CsvRows })

(* term_options = ['All'] + sorted(df['Term'].unique().tolist()) *)
TermOptions(d) == <<STR_All>> \o sorted(unique(d, "Term"))

(* the mask applied whatever the value, "All" included *)
filter_no_sentinel(d, selected) == Where(d, "Term", selected)

(* filtered_df = df.copy(); if selected_term != "All": filtered_df = *)
(* filtered_df[filtered_df["Term"] == selected_term]                  *)
filter_by_term(d, selected) ==
  IF selected # STR_All THEN Where(d, "Term", selected) ELSE d

(* `and` in the place of `or` *)
HasComparisonBoth(spring, fall) == ~Empty(spring) /\ ~Empty(fall)

(* if not spring_data.empty or not fall_data.empty *)
HasComparison(spring, fall) == ~Empty(spring) \/ ~Empty(fall)

(* spring_data / fall_data: the rows of one season grouped by Term, the Season *)
(* column written onto the grouped table when it has rows                      *)
season_data(d, season) ==
  LET g == groupby_agg(Where(d, "Season", season),
                       {"Applications", "Admitted", "Enrolled"},
                       {"Retention Rate (%)", "Student Satisfaction (%)"})
  IN  IF ~Empty(g) THEN SetColumn(g, "Season", season) ELSE g

(* The names the script has bound when it ends, given the frame bound to df *)
(* before the filter (d) and after it (dAfter) and the selectbox's value.   *)
(* groupby(...).agg on a column the frame lacks raises KeyError at line 57  *)
(* and the names below it stay unbound.                                     *)
ScriptBody(d, dAfter, selected) ==
  LET filtered == filter_by_term(d, selected)
      hasEnrolled == "Enrolled" \in filtered.columns
      ok == hasEnrolled
      spring == season_data(filtered, "Spring")
      fall == season_data(filtered, "Fall")
      Bound(x) == IF ok THEN x ELSE Unset
  IN  [df |-> dAfter,
       term_options |-> TermOptions(d),
       selected_term |-> selected,
       filtered_df |-> filtered,
       total_applications |-> SumCol(filtered.rows, "Applications"),
       total_admissions |-> SumCol(filtered.rows, "Admitted"),
       total_enrollments |->
         IF hasEnrolled THEN SumCol(filtered.rows, "Enrolled")
         ELSE SumCol(filtered.rows, "Arts Enrolled")
              + SumCol(filtered.rows, "Science Enrolled")
              + SumCol(filtered.rows, "Engineering Enrolled")
              + SumCol(filtered.rows, "Business Enrolled"),
       avg_retention |-> MeanCol(filtered.rows, "Retention Rate (%)"),
       avg_satisfaction |-> MeanCol(filtered.rows, "Student Satisfaction (%)"),
       admissions_data |->
         Bound(groupby_agg(filtered, {"Applications", "Admitted", "Enrolled"}, {})),
       dept_data |->
         Bound([columns |-> {"Department", "Enrollments"},
                rows |-> [i \in 1..Len(DeptColumns) |->
                            [Department |-> <<"Arts", "Science", "Engineering",
                                              "Business">>[i],
                             Enrollments |-> SumCol(filtered.rows, DeptColumns[i])]]]),
       spring_data |-> Bound(spring),
       fall_data |-> Bound(fall),
       combined |->
         IF ok /\ HasComparison(spring, fall) THEN concat(spring, fall) ELSE Unset,
       df_dept_long |-> Bound(melt(filtered, {"Term", "Year"}, DeptColumns)),
       df_dept_trends |-> Bound(melt(dAfter, {"Year"}, DeptColumns)),
       st_write |->
         IF ok /\ ~HasComparison(spring, fall)
         THEN {"Insufficient data for Spring vs Fall comparison."} ELSE {},
       exception |-> IF ok THEN "none" ELSE "KeyError"]

(* A run that filters df itself instead of a copy of it. *)
RunScriptInPlace(d, selected) == ScriptBody(d, filter_by_term(d, selected), selected)

(* One run of the script over the cached frame: the filter works on a copy, *)
(* df stays bound to the loaded frame.                                      *)
RunScript(d, selected) == ScriptBody(d, d, selected)

(* The state holds the names a run has bound. *)
Bind(r) ==
  /\ df = r.df
  /\ term_options = r.term_options
  /\ selected_term = r.selected_term
  /\ filtered_df = r.filtered_df
  /\ total_applications = r.total_applications
  /\ total_admissions = r.total_admissions
  /\ total_enrollments = r.total_enrollments
  /\ avg_retention = r.avg_retention
  /\ avg_satisfaction = r.avg_satisfaction
  /\ admissions_data = r.admissions_data
  /\ dept_data = r.dept_data
  /\ spring_data = r.spring_data
  /\ fall_data = r.fall_data
  /\ combined = r.combined
  /\ df_dept_long = r.df_dept_long
  /\ df_dept_trends = r.df_dept_trends
  /\ st_write = r.st_write
  /\ exception = r.exception

(* The rerun Streamlit makes when the selectbox changes to `selected`. *)
Rerun(selected) ==
  \E r \in {RunScript(df, selected)} :
      /\ df' = r.df
      /\ term_options' = r.term_options
      /\ selected_term' = r.selected_term
      /\ filtered_df' = r.filtered_df
      /\ total_applications' = r.total_applications
      /\ total_admissions' = r.total_admissions
      /\ total_enrollments' = r.total_enrollments
      /\ avg_retention' = r.avg_retention
      /\ avg_satisfaction' = r.avg_satisfaction
      /\ admissions_data' = r.admissions_data
      /\ dept_data' = r.dept_data
      /\ spring_data' = r.spring_data
      /\ fall_data' = r.fall_data
      /\ combined' = r.combined
      /\ df_dept_long' = r.df_dept_long
      /\ df_dept_trends' = r.df_dept_trends
      /\ st_write' = r.st_write
      /\ exception' = r.exception

(* The first run: the selectbox shows its first option, "All". *)
Init ==
  \E csv \in read_csv(CsvColumns) :
    \E r \in {RunScript(load_data(csv), STR_All)} : Bind(r)

(* The user picks one of the options of the selectbox. *)
SelectTerm == \E i \in 1..Len(term_options) : Rerun(term_options[i])

Next == SelectTerm

Spec == Init /\ [][Next]_vars

(* The filter applied to any value, in the data or not. *)
FilterValues == { r["Term"] : r \in CsvRows } \union {STR_All, T_Nonexistent}

ApplyFilter == \E v \in FilterValues : Rerun(v)

NextFilter == ApplyFilter

SpecFilter == Init /\ [][NextFilter]_vars

(* A CSV file whose header may lack the Enrolled column. *)
InitSchema ==
  \E columns \in {CsvColumns, CsvColumns \ {"Enrolled"}} :
    \E csv \in read_csv(columns) :
      \E r \in {RunScript(load_data(csv), STR_All)} : Bind(r)

SpecSchema == InitSchema /\ [][Next]_vars

-----------------------------------------------------------------------------
(* Properties *)

Rows(d) == { d.rows[i] : i \in 1..Len(d.rows) }

(* the rows of d whose column c holds v, in order *)
RowsWith(d, c, v) == SelectSeq(d.rows, LAMBDA r : r[c] = v)

SumColumns == {"Applications", "Admitted", "Enrolled"}

(* C1: every loaded record's Season is Spring when its Term contains "Spring" *)
(* (case-sensitive), otherwise Fall when it contains "Fall", otherwise Other; *)
(* a label holding both substrings is Spring.                                 *)
C1_SeasonClassification ==
  \A r \in Rows(df) \union Rows(filtered_df) :
    /\ Contains(STR_Spring, r["Term"]) => r["Season"] = "Spring"
    /\ ~Contains(STR_Spring, r["Term"]) /\ Contains(STR_Fall, r["Term"])
         => r["Season"] = "Fall"
    /\ ~Contains(STR_Spring, r["Term"]) /\ ~Contains(STR_Fall, r["Term"])
         => r["Season"] = "Other"
    /\ r["Term"] = T_Spring2023 => r["Season"] = "Spring"
    /\ r["Term"] = T_Fall2023 => r["Season"] = "Fall"
    /\ r["Term"] = T_Summer2023 => r["Season"] = "Other"
    /\ r["Term"] = T_Hybrid2023 => r["Season"] = "Spring"
    /\ r["Term"] = T_lower2024 => r["Season"] = "Other"

C1_Witness ==
  /\ selected_term = T_Hybrid2023
  /\ \E r \in Rows(filtered_df) : r["Term"] = T_Hybrid2023 /\ r["Season"] = "Spring"
  /\ \E r \in Rows(df) : r["Term"] = T_lower2024 /\ r["Season"] = "Other"

(* C2: the filter with "All" yields the whole frame; with any other value it *)
(* yields exactly the rows whose Term equals the value, and no rows, without *)
(* an exception, when no row has that Term.                                  *)
C2_FilterByTerm ==
  /\ selected_term = STR_All => filtered_df = df
  /\ selected_term # STR_All =>
       /\ filtered_df.columns = df.columns
       /\ filtered_df.rows = RowsWith(df, "Term", selected_term)
       /\ (\A r \in Rows(df) : r["Term"] # selected_term) =>
            /\ filtered_df.rows = << >>
            /\ exception = "none"

C2_Witness ==
  /\ selected_term = T_Nonexistent
  /\ Len(df.rows) = MaxRows
  /\ filtered_df.rows = << >>
  /\ exception = "none"

(* C3: on a non-empty record set the per-term table has one row per distinct  *)
(* Term of the filtered records, each row's Applications, Admitted and        *)
(* Enrolled are the sums over the filtered records of exactly that Term, and  *)
(* each column's sum over the table equals the sum over the filtered records, *)
(* which is the KPI total.                                                    *)
C3_TermSumsPartition ==
  Len(df.rows) > 0 =>
    /\ \A r \in Rows(filtered_df) :
         Cardinality({ i \in 1..Len(admissions_data.rows) :
                         admissions_data.rows[i]["Term"] = r["Term"] }) = 1
    /\ \A g \in Rows(admissions_data) : \A c \in SumColumns :
         g[c] = SumCol(RowsWith(filtered_df, "Term", g["Term"]), c)
    /\ \A c \in SumColumns :
         SumCol(admissions_data.rows, c) = SumCol(filtered_df.rows, c)
    /\ SumCol(admissions_data.rows, "Applications") = total_applications
    /\ SumCol(admissions_data.rows, "Admitted") = total_admissions
    /\ SumCol(admissions_data.rows, "Enrolled") = total_enrollments

C3_Witness ==
  /\ selected_term = STR_All
  /\ Len(admissions_data.rows) = 2
  /\ Len(filtered_df.rows) = 3
  /\ total_applications = SumCol(df.rows, "Applications")

(* C4: when exactly one of Spring and Fall has no filtered rows, its table is *)
(* empty, no exception is raised, and the comparison holds one row for each   *)
(* Term of the other season, with that Term's sums.                           *)
C4_OneSeasonEmpty ==
  \A s \in {"Spring", "Fall"} :
    LET o == IF s = "Spring" THEN "Fall" ELSE "Spring"
        present == RowsWith(filtered_df, "Season", s)
        table == IF s = "Spring" THEN spring_data ELSE fall_data
        other == IF s = "Spring" THEN fall_data ELSE spring_data
    IN  (Len(present) > 0 /\ Len(RowsWith(filtered_df, "Season", o)) = 0) =>
          /\ exception = "none"
          /\ other.rows = << >>
          /\ st_write = {}
          /\ combined # Unset
          /\ combined.rows = table.rows
          /\ \A i \in 1..Len(present) :
               Cardinality({ k \in 1..Len(combined.rows) :
                 /\ combined.rows[k]["Term"] = present[i]["Term"]
                 /\ combined.rows[k]["Season"] = s
                 /\ \A c \in SumColumns :
                      combined.rows[k][c] =
                        SumCol(SelectSeq(present,
                                 LAMBDA r : r["Term"] = present[i]["Term"]), c) }) = 1

C4_Witness ==
  /\ selected_term = T_Fall2023
  /\ \E r \in Rows(df) : r["Season"] = "Spring"
  /\ Len(RowsWith(filtered_df, "Season", "Fall")) = 2
  /\ spring_data.rows = << >>
  /\ Len(fall_data.rows) = 1
  /\ Len(combined.rows) = 1
  /\ combined.rows[1]["Enrolled"] = 16

(* C5: no rerun changes the loaded dataset. *)
C5_DatasetUnchanged == [][df' = df]_vars

C5_Witness ==
  /\ selected_term # STR_All
  /\ exception = "none"
  /\ Len(filtered_df.rows) < Len(df.rows)
  /\ "Season" \in spring_data.columns
  /\ Len(df_dept_long.rows) < Len(df_dept_trends.rows)

(* C6: the latest term is the chronologically latest (Year, ordinal) pair with *)
(* Spring = 0 and Fall = 1; the order of the terms is not the sorted order of  *)
(* the labels.  The script's only order of the terms is term_options.          *)
ChronoKey(r) == 2 * r["Year"] + (IF r["Season"] = "Fall" THEN 1 ELSE 0)

C6_LatestTermChronological ==
  (/\ Len(term_options) > 1
   /\ \A r \in Rows(df) : r["Season"] \in {"Spring", "Fall"}) =>
    \E r \in Rows(df) :
      /\ r["Term"] = term_options[Len(term_options)]
      /\ \A q \in Rows(df) : ChronoKey(q) <= ChronoKey(r)

(* C7: the department trend has exactly one row per (Year, department), its *)
(* Enrollments the sum of the department over all records of that Year.     *)
C7_OneRowPerYearDepartment ==
  exception = "none" =>
    \A r \in Rows(df) : \A i \in 1..Len(DeptColumns) :
      LET hits == { k \in 1..Len(df_dept_trends.rows) :
                      /\ df_dept_trends.rows[k]["Year"] = r["Year"]
                      /\ df_dept_trends.rows[k]["Department"] = DeptColumns[i] }
      IN  /\ Cardinality(hits) = 1
          /\ \A k \in hits :
               df_dept_trends.rows[k]["Enrollments"] =
                 SumCol(RowsWith(df, "Year", r["Year"]), DeptColumns[i])

(* C8: the department totals are the column sums over the filtered records, *)
(* and a DataConsistencyWarning is reported when some filtered record's     *)
(* four department counts do not add up to its Enrolled.                    *)
DeptSum(r) ==
  r["Arts Enrolled"] + r["Science Enrolled"] + r["Engineering Enrolled"]
    + r["Business Enrolled"]

C8_ConsistencyWarning ==
  exception = "none" =>
    /\ \A i \in 1..Len(DeptColumns) :
         dept_data.rows[i].Enrollments = SumCol(filtered_df.rows, DeptColumns[i])
    /\ (\E r \in Rows(filtered_df) : DeptSum(r) # r["Enrolled"]) =>
         "DataConsistencyWarning" \in st_write

(* C9: no KPI is NaN: a mean over no rows raises EmptyInputError, and a   *)
(* frame without the Enrolled column raises MissingColumnError instead of *)
(* a total computed from other columns.                                   *)
C9_TypedErrors ==
  /\ Empty(filtered_df) => exception = "EmptyInputError"
  /\ "Enrolled" \notin filtered_df.columns =>
       exception = "MissingColumnError"
  /\ avg_retention # NaN
  /\ avg_satisfaction # NaN

(* C10: on a non-empty dataset the filtered subset is never empty, and with *)
(* a selection other than "All" every filtered record has that Term, the    *)
(* per-term table has one row, and Spring and Fall tables are not both      *)
(* non-empty.                                                               *)
C10_SelectionFromData ==
  Len(df.rows) > 0 =>
    /\ Len(filtered_df.rows) > 0
    /\ selected_term # STR_All =>
         /\ \A r \in Rows(filtered_df) : r["Term"] = selected_term
         /\ Len(admissions_data.rows) = 1
         /\ ~(~Empty(spring_data) /\ ~Empty(fall_data))

C10_Witness ==
  /\ selected_term # STR_All
  /\ Len(df.rows) = MaxRows
  /\ Len(filtered_df.rows) = 2
  /\ Len(admissions_data.rows) = 1
  /\ ~Empty(fall_data)
  /\ Empty(spring_data)

====
